---- MODULE Spec2Model ----
(***************************************************************************)
(* PyChessGUI (src/final.py): the match session (GameState), its clocks,   *)
(* the post-game move evaluator (get_move_evaluation, EvaluationScreen)    *)
(* and the screen loop of main().                                          *)
(*                                                                         *)
(* The rules provider (python-chess) and the engine (Stockfish) are        *)
(* external.  The rules provider is modelled by a chess game on a board    *)
(* of 3 files and 4 ranks with kings, rooks, knights and pawns: squares    *)
(* are numbered file + 3 * rank as chess.square numbers them (a1 = 0),     *)
(* moves carry (from_square, to_square, promotion), a pawn reaching the    *)
(* last rank must promote, and a position is over on checkmate, stalemate  *)
(* or insufficient material.  The engine is modelled by a nondeterministic *)
(* choice among the answers it can give.                                   *)
(***************************************************************************)
EXTENDS Integers, Sequences, FiniteSets

\* ------------------------------------------------------------------------
\* Bounds of the model
\* ------------------------------------------------------------------------

\* The longest move_history the model plays.
MaxMoves == 2

\* The wall clock (pygame.time.get_ticks(), in milliseconds) advances in
\* steps of TickStep, at most MaxSteps times.
TickStep == 5000

MaxSteps == 2

\* The most hints one session records.
MaxHints == 1

\* The most records the user's saved_games gets.
MaxSaves == 2

\* ------------------------------------------------------------------------
\* Values
\* ------------------------------------------------------------------------

\* Python's None where the other values are records.
None == [none |-> TRUE]

\* Python's None where the other values are integers (a square, a time limit).
NoneInt == 0 - 1

\* Python's None where the other values are strings (a result, a promotion).
NoneStr == "None"

\* chess.WHITE and chess.BLACK; a colour is compared with None (human_color),
\* so the two colours are strings here.
WHITE == "white"
BLACK == "black"

\* not color
Other(color) == IF color = WHITE THEN BLACK ELSE WHITE

\* Python's truth value of a square or None: None and 0 are both false.
Truthy(x) == x # NoneInt /\ x # 0

Abs(x) == IF x < 0 THEN 0 - x ELSE x

Max(a, b) == IF a >= b THEN a ELSE b

Min(a, b) == IF a <= b THEN a ELSE b

\* ------------------------------------------------------------------------
\* Rules provider: chess.Board
\* ------------------------------------------------------------------------

Squares == 0 .. 11

SquareFile(s) == s % 3

SquareRank(s) == s \div 3

WhitePieces == {"K", "R", "N", "P"}

BlackPieces == {"k", "r", "n", "p"}

PromotionPieces == {"R", "N"}

\* chess.Move(from_square, to_square, promotion=None)
Move(from, to, promotion) ==
    [from_square |-> from, to_square |-> to, promotion |-> promotion]

PiecesOf(color) == IF color = WHITE THEN WhitePieces ELSE BlackPieces

\* Piece.color of a piece symbol
PieceColor(p) == IF p \in WhitePieces THEN WHITE ELSE BLACK

\* The symbol of piece type t ("K", "R", "N", "P") in the given color
Symbol(t, color) ==
    IF color = WHITE THEN t
    ELSE CASE t = "K" -> "k" [] t = "R" -> "r" [] t = "N" -> "n" [] OTHER -> "p"

PieceType(p) ==
    CASE p \in {"K", "k"} -> "K"
      [] p \in {"R", "r"} -> "R"
      [] p \in {"N", "n"} -> "N"
      [] OTHER -> "P"

\* chess.Board(): the starting position
\*    rank 4   .  .  .
\*    rank 3   .  P  p
\*    rank 2   .  .  k
\*    rank 1   K  R  .
InitialBoard ==
    [pieces |-> [s \in Squares |->
                    CASE s = 0 -> "K"
                      [] s = 1 -> "R"
                      [] s = 5 -> "k"
                      [] s = 7 -> "P"
                      [] s = 8 -> "p"
                      [] OTHER -> "."],
     turn |-> WHITE,
     fullmove_number |-> 1]

\* The squares strictly between two squares of one file or one rank
Between(a, b) ==
    {s \in Squares :
        \/ /\ SquareFile(a) = SquareFile(b) /\ SquareFile(s) = SquareFile(a)
           /\ SquareRank(s) > Min(SquareRank(a), SquareRank(b))
           /\ SquareRank(s) < Max(SquareRank(a), SquareRank(b))
        \/ /\ SquareRank(a) = SquareRank(b) /\ SquareRank(s) = SquareRank(a)
           /\ SquareFile(s) > Min(SquareFile(a), SquareFile(b))
           /\ SquareFile(s) < Max(SquareFile(a), SquareFile(b))}

\* Whether the piece standing on `from` attacks square `to`
Attacks(pieces, from, to) ==
    LET p  == pieces[from]
        df == SquareFile(to) - SquareFile(from)
        dr == SquareRank(to) - SquareRank(from)
    IN  /\ p # "."
        /\ from # to
        /\ CASE PieceType(p) = "K" -> Abs(df) <= 1 /\ Abs(dr) <= 1
             [] PieceType(p) = "N" -> {Abs(df), Abs(dr)} = {1, 2}
             [] PieceType(p) = "R" ->
                    /\ (df = 0 \/ dr = 0)
                    /\ \A s \in Between(from, to) : pieces[s] = "."
             [] OTHER ->
                    /\ Abs(df) = 1
                    /\ dr = (IF PieceColor(p) = WHITE THEN 1 ELSE 0 - 1)

\* Whether the king of `color` is attacked
KingAttacked(pieces, color) ==
    \E k \in Squares :
        /\ pieces[k] = Symbol("K", color)
        /\ \E s \in Squares :
              /\ pieces[s] \in PiecesOf(Other(color))
              /\ Attacks(pieces, s, k)

\* Board.is_check()
IsCheck(board) == KingAttacked(board.pieces, board.turn)

\* The placement after a move (Board.push, the pieces alone)
PiecesAfter(pieces, move) ==
    [pieces EXCEPT
        ![move.from_square] = ".",
        ![move.to_square] =
            IF move.promotion # NoneStr
            THEN Symbol(move.promotion, PieceColor(pieces[move.from_square]))
            ELSE pieces[move.from_square]]

\* Board.push(move)
Push(board, move) ==
    [pieces |-> PiecesAfter(board.pieces, move),
     turn |-> Other(board.turn),
     fullmove_number |->
        IF board.turn = BLACK THEN board.fullmove_number + 1
        ELSE board.fullmove_number]

LastRank(color) == IF color = WHITE THEN 3 ELSE 0

\* Board.pseudo_legal_moves
PseudoLegalMoves(board) ==
    LET pieces == board.pieces
        own    == PiecesOf(board.turn)
        dir    == IF board.turn = WHITE THEN 1 ELSE 0 - 1
        PawnTargets(from) ==
            {to \in Squares :
                /\ SquareRank(to) - SquareRank(from) = dir
                /\ \/ SquareFile(to) = SquareFile(from) /\ pieces[to] = "."
                   \/ /\ Abs(SquareFile(to) - SquareFile(from)) = 1
                      /\ pieces[to] \in PiecesOf(Other(board.turn))}
        PieceTargets(from) ==
            {to \in Squares : Attacks(pieces, from, to) /\ pieces[to] \notin own}
    IN  UNION {
          IF pieces[from] \notin own THEN {}
          ELSE IF PieceType(pieces[from]) = "P"
          THEN UNION {
                 IF SquareRank(to) = LastRank(board.turn)
                 THEN {Move(from, to, t) : t \in PromotionPieces}
                 ELSE {Move(from, to, NoneStr)}
                 : to \in PawnTargets(from)}
          ELSE {Move(from, to, NoneStr) : to \in PieceTargets(from)}
          : from \in Squares}

\* Board.generate_legal_moves: the pseudo-legal moves that do not leave the
\* own king attacked
GenerateLegalMoves(board) ==
    {m \in PseudoLegalMoves(board) :
        ~KingAttacked(PiecesAfter(board.pieces, m), board.turn)}

\* The positions that n moves or fewer reach from the starting position
RECURSIVE BoardsWithin(_)
BoardsWithin(n) ==
    IF n = 0 THEN {InitialBoard}
    ELSE LET before == BoardsWithin(n - 1)
         IN  before \cup
             UNION {{Push(b, m) : m \in GenerateLegalMoves(b)} : b \in before}

\* The legal moves of every position a session of the model reaches,
\* generated once
LegalMovesTable ==
    [b \in BoardsWithin(MaxMoves) |-> GenerateLegalMoves(b)]

\* Board.legal_moves
LegalMoves(board) == LegalMovesTable[board]

\* Board.has_insufficient_material(color)
HasInsufficientMaterial(pieces, color) ==
    LET own  == {s \in Squares : pieces[s] \in PiecesOf(color)}
        them == {s \in Squares : pieces[s] \in PiecesOf(Other(color))}
    IN  /\ \A s \in own : PieceType(pieces[s]) \notin {"P", "R"}
        /\ (\E s \in own : PieceType(pieces[s]) = "N")
              => /\ Cardinality(own) <= 2
                 /\ \A s \in them : PieceType(pieces[s]) = "K"

\* Board.is_game_over()
IsGameOver(board) ==
    \/ LegalMoves(board) = {}
    \/ /\ HasInsufficientMaterial(board.pieces, WHITE)
       /\ HasInsufficientMaterial(board.pieces, BLACK)

\* Board.result()
BoardResult(board) ==
    IF LegalMoves(board) = {} /\ IsCheck(board)
    THEN (IF board.turn = WHITE THEN "0-1" ELSE "1-0")
    ELSE IF IsGameOver(board) THEN "1/2-1/2"
    ELSE "*"

\* Board.san(move): the notation of a move, which names the moving piece,
\* the squares, a capture and a promotion as they are on the board given.
San(board, move) ==
    [piece |-> board.pieces[move.from_square],
     from_square |-> move.from_square,
     to_square |-> move.to_square,
     capture |-> board.pieces[move.to_square] # ".",
     promotion |-> move.promotion]

\* The board after pushing a move list onto the starting position
RECURSIVE Replay(_)
Replay(moves) ==
    IF moves = <<>> THEN InitialBoard
    ELSE Push(Replay(SubSeq(moves, 1, Len(moves) - 1)), moves[Len(moves)])


\* ------------------------------------------------------------------------
\* GameState
\* ------------------------------------------------------------------------

\* DIFFICULTY_LEVELS[name]["depth"]
DifficultyDepth(name) ==
    CASE name = "Easy" -> 5
      [] name = "Medium" -> 10
      [] name = "Hard" -> 15
      [] name = "Extreme" -> 20

Difficulties == {"Easy", "Medium", "Hard", "Extreme"}

Modes == {"Human vs AI", "Human vs Human", "AI vs AI"}

\* GameState.__init__(game_mode, human_color, time_limit, difficulty), as
\* main() calls it (no fen, history or hints); now is pygame.time.get_ticks()
GameState(game_mode, human_color, time_limit, difficulty, now) ==
    [game_mode |-> game_mode,
     board |-> InitialBoard,
     human_color |-> human_color,
     selected_square |-> NoneInt,
     valid_moves |-> {},
     game_over |-> FALSE,
     result |-> NoneStr,
     time_limit |-> time_limit,
     start_time |-> now,
     remaining_time |->
        [c \in {WHITE, BLACK} |->
            IF time_limit # NoneInt THEN time_limit * 1000 ELSE 0 - 1],
     is_timer_running |-> FALSE,
     hint_move |-> None,
     move_history |-> <<>>,
     hints_used |-> <<>>,
     difficulty |-> difficulty,
     ai_skill |->
        IF game_mode = "AI vs AI" THEN DifficultyDepth("Extreme")
        ELSE IF difficulty \in Difficulties THEN DifficultyDepth(difficulty)
        ELSE 10,
     is_saved |-> FALSE]

\* GameState.reset_selection
reset_selection(gs) ==
    [gs EXCEPT !.selected_square = NoneInt, !.valid_moves = {}]

\* GameState.update_timer(turn)
update_timer(gs, turn, now) ==
    IF gs.time_limit # NoneInt
    THEN [gs EXCEPT !.remaining_time[turn] = @ - (now - gs.start_time),
                    !.start_time = now]
    ELSE gs

\* The side whose clock a human move ticks: handle_click passes
\* self.board.turn, read after the push.
ClickTimerSide(pushed) == pushed.board.turn

\* The condition under which handle_click takes the click as the destination
\* of a move: "if self.selected_square:"
HasSelection(gs) == Truthy(gs.selected_square)

\* GameState.handle_click(pos), for a click inside the board on `square`, or
\* outside it (square = NoneInt); now is pygame.time.get_ticks()
handle_click(gs, square, now) ==
    IF square \notin Squares THEN gs
    ELSE IF HasSelection(gs)
    THEN LET move == Move(gs.selected_square, square, NoneStr)
         IN  IF move \in LegalMoves(gs.board)
             THEN LET pushed == [gs EXCEPT !.board = Push(@, move),
                                           !.move_history = Append(@, move)]
                      moved == [reset_selection(pushed) EXCEPT
                                   !.hint_move = None,
                                   !.is_timer_running = TRUE]
                  IN  IF moved.time_limit # NoneInt
                      THEN update_timer(moved, ClickTimerSide(moved), now)
                      ELSE moved
             ELSE reset_selection(gs)
    ELSE LET piece == gs.board.pieces[square]
         IN  IF /\ piece # "."
                /\ \/ gs.game_mode = "Human vs Human"
                   \/ PieceColor(piece) = gs.human_color
             THEN [gs EXCEPT
                      !.selected_square = square,
                      !.valid_moves =
                          {m.to_square : m \in
                              {l \in LegalMoves(gs.board) : l.from_square = square}}]
             ELSE gs

\* The answers engine.play can give for a board: one of its legal moves, or
\* no move.
EngineMoves(board) == LegalMoves(board) \cup {None}

\* The answers of engine.play the model takes for a hint, which is drawn on
\* the board and not read otherwise: one of the legal moves, or no move.
HintMoves(board) ==
    {None} \cup (IF LegalMoves(board) = {} THEN {}
                 ELSE {CHOOSE m \in LegalMoves(board) : TRUE})

\* get_hint with the hint played on the board
get_hint_played(gs, move) ==
    [gs EXCEPT !.hint_move = move,
               !.hints_used = Append(@, gs.board.fullmove_number),
               !.board = IF move = None THEN @ ELSE Push(@, move)]

\* GameState.get_hint; move is result.move of engine.play
get_hint(gs, move) ==
    [gs EXCEPT !.hint_move = move,
               !.hints_used = Append(@, gs.board.fullmove_number)]

\* get_ai_move with the move pushed and not recorded
get_ai_move_unrecorded(gs, move) ==
    IF move # None
    THEN [gs EXCEPT !.is_timer_running = TRUE, !.board = Push(@, move)]
    ELSE [gs EXCEPT !.is_timer_running = TRUE]

\* GameState.get_ai_move; move is result.move of engine.play
get_ai_move(gs, move) ==
    LET running == [gs EXCEPT !.is_timer_running = TRUE]
    IN  IF move # None
        THEN [running EXCEPT !.board = Push(@, move),
                             !.move_history = Append(@, move)]
        ELSE running

\* GameState.check_game_over
check_game_over(gs) ==
    IF IsGameOver(gs.board)
    THEN [gs EXCEPT !.game_over = TRUE, !.result = BoardResult(gs.board)]
    ELSE gs

\* The result string of a timeout
TimeOut(turn) ==
    IF turn = WHITE THEN "Time out for White" ELSE "Time out for Black"

\* check_time with the time charged to the side that is not to move
check_time_charging_other(gs, now) ==
    IF gs.time_limit # NoneInt /\ gs.is_timer_running
    THEN LET turn == Other(gs.board.turn)
             ticked == [gs EXCEPT
                          !.remaining_time[turn] = @ - (now - gs.start_time),
                          !.start_time = now]
         IN  IF ticked.remaining_time[turn] <= 0
             THEN [ticked EXCEPT !.game_over = TRUE, !.result = TimeOut(turn)]
             ELSE ticked
    ELSE gs

\* check_time that leaves start_time as it was
check_time_keeping_start(gs, now) ==
    IF gs.time_limit # NoneInt /\ gs.is_timer_running
    THEN LET turn == gs.board.turn
             ticked == [gs EXCEPT
                          !.remaining_time[turn] = @ - (now - gs.start_time)]
         IN  IF ticked.remaining_time[turn] <= 0
             THEN [ticked EXCEPT !.game_over = TRUE, !.result = TimeOut(turn)]
             ELSE ticked
    ELSE gs

\* check_time without the test of time_limit
check_time_unlimited(gs, now) ==
    IF gs.is_timer_running
    THEN LET turn == gs.board.turn
             ticked == [gs EXCEPT
                          !.remaining_time[turn] = @ - (now - gs.start_time),
                          !.start_time = now]
         IN  IF ticked.remaining_time[turn] <= 0
             THEN [ticked EXCEPT !.game_over = TRUE, !.result = TimeOut(turn)]
             ELSE ticked
    ELSE gs

\* check_time without the test of is_timer_running
check_time_idle_clock(gs, now) ==
    IF gs.time_limit # NoneInt
    THEN LET turn == gs.board.turn
             ticked == [gs EXCEPT
                          !.remaining_time[turn] = @ - (now - gs.start_time),
                          !.start_time = now]
         IN  IF ticked.remaining_time[turn] <= 0
             THEN [ticked EXCEPT !.game_over = TRUE, !.result = TimeOut(turn)]
             ELSE ticked
    ELSE gs

\* GameState.check_time
check_time(gs, now) ==
    IF gs.time_limit # NoneInt /\ gs.is_timer_running
    THEN LET turn == gs.board.turn
             ticked == [gs EXCEPT
                          !.remaining_time[turn] = @ - (now - gs.start_time),
                          !.start_time = now]
         IN  IF ticked.remaining_time[turn] <= 0
             THEN [ticked EXCEPT !.game_over = TRUE, !.result = TimeOut(turn)]
             ELSE ticked
    ELSE gs

\* ------------------------------------------------------------------------
\* The engine (chess.engine.SimpleEngine)
\* ------------------------------------------------------------------------

\* A request of some kind ("play", "hint", "analyse") goes to the engine
Send(out, kind) == Append(out, kind)

\* The engine answers the request sent last
Answer(out) == SubSeq(out, 1, Len(out) - 1)

\* A request that the caller does not wait for
EngineCallUnawaited(out, kind) == Send(out, kind)

\* The depth of the evaluator's two analyses: chess.engine.Limit(depth=15)
AnalysisDepth == 15

\* engine.play(...) and engine.analyse(...) of SimpleEngine: the call sends
\* the request and returns when the engine has answered it
EngineCall(out, kind) == Answer(Send(out, kind))

\* n calls of one kind, one after the other
RECURSIVE EngineCalls(_, _, _)
EngineCalls(out, kind, n) ==
    IF n = 0 THEN out ELSE EngineCalls(EngineCall(out, kind), kind, n - 1)

\* ------------------------------------------------------------------------
\* LoginSystem
\* ------------------------------------------------------------------------

\* LoginSystem.__init__: no user, and the saved games of the one account of
\* the model, none yet
LoginSystem == [current_user |-> NoneStr, saved_games |-> <<>>]

\* LoginSystem.login / create_account succeeding for username
login(ls, username) == [ls EXCEPT !.current_user = username]

\* Move.uci(): the squares and the promotion of a move
Uci(move) == <<move.from_square, move.to_square, move.promotion>>

\* The record LoginSystem.save_game builds for a session.  Its id is a new
\* uuid, here the number of the record.  Its hints_used is the session's
\* list itself, not a copy.
SavedGame(gs, id) ==
    [id |-> id,
     fen |-> gs.board,
     history |-> [i \in 1 .. Len(gs.move_history) |-> Uci(gs.move_history[i])],
     hints_used |-> gs.hints_used,
     human_color |-> IF gs.human_color = WHITE THEN "white" ELSE "black",
     time_limit |-> gs.time_limit,
     difficulty |-> gs.difficulty,
     game_mode |-> gs.game_mode]

\* LoginSystem.save_game(game_state)
save_game(ls, gs) ==
    IF ls.current_user = NoneStr THEN ls
    ELSE [ls EXCEPT !.saved_games =
             Append(@, SavedGame(gs, Len(ls.saved_games) + 1))]

\* The saved games once the session gs has a new entry in hints_used: the
\* record saved from gs, which is the last one (a GameState is saved at
\* most once, and later records come from later sessions), shares the list
SharedHints(ls, gs) ==
    IF gs.is_saved /\ ls.saved_games # <<>>
    THEN [ls EXCEPT !.saved_games[Len(ls.saved_games)].hints_used =
             gs.hints_used]
    ELSE ls

\* ------------------------------------------------------------------------
\* Move evaluator
\* ------------------------------------------------------------------------

\* The centipawn scores info["score"].relative.score(mate_score=10000) takes
\* in the model.
Scores == {0 - 60, 0, 60}

\* The answers engine.analyse can give for a board: a score or none, and a
\* principal move (info["pv"][0]) or none.  An answer without a score is
\* written with score 0, which is not read.
ScoreAnswers ==
    {[has_score |-> TRUE, score |-> s] : s \in Scores}
    \cup {[has_score |-> FALSE, score |-> 0]}

Infos(board) ==
    {[has_score |-> a.has_score, score |-> a.score, pv |-> m] :
        a \in ScoreAnswers, m \in LegalMoves(board) \cup {None}}

\* A chess.Board with its move stack: the positions from the first to the
\* current one.  push adds a position, pop drops the last one.
Top(stack) == stack[Len(stack)]

PushS(stack, move) == Append(stack, Push(Top(stack), move))

PopS(stack) == SubSeq(stack, 1, Len(stack) - 1)

\* The difference get_move_evaluation compares with 100: score - new_score,
\* new_score being the analyser's score of the position after the move,
\* relative to the side to move there.
ScoreDiff(score, new_score) == score - new_score

\* get_move_evaluation(board, move): info and new_info are what the two
\* engine.analyse calls answer; of new_info the score alone is read.  The
\* result is the colour returned, the board as the call leaves it, whether
\* an exception left the function, and the number of engine.analyse calls
\* made.
get_move_evaluation(board, move, info, new_info) ==
    IF ~info.has_score
    THEN [analyses |-> 1, raised |-> TRUE, color |-> NoneStr, board |-> board]
    ELSE IF IsCheck(Top(board))
    THEN [analyses |-> 1, raised |-> FALSE, color |-> "red", board |-> board]
    ELSE IF move \notin LegalMoves(Top(board))
    THEN [analyses |-> 1, raised |-> FALSE, color |-> "red", board |-> board]
    ELSE IF info.pv = None
    THEN [analyses |-> 1, raised |-> FALSE, color |-> "blue", board |-> board]
    ELSE IF move = info.pv
    THEN [analyses |-> 1, raised |-> FALSE, color |-> "green", board |-> board]
    ELSE LET pushed == PushS(board, move)
         IN  IF ~new_info.has_score
             THEN [analyses |-> 2, raised |-> FALSE, color |-> "blue", board |-> pushed]
             ELSE [analyses |-> 2, raised |-> FALSE,
                   color |-> IF Abs(ScoreDiff(info.score, new_info.score)) <= 100
                             THEN "blue" ELSE "red",
                   board |-> PopS(pushed)]

\* EvaluationScreen.__init__(game_state), up to the call of evaluate_moves
EvaluationScreen(gs, now) ==
    [board |-> InitialBoard,
     move_history |-> gs.move_history,
     evaluated_moves |-> <<>>,
     current_move_index |-> 0,
     is_playing |-> TRUE,
     last_move_time |-> now,
     speed_index |-> 3,
     focus_index |-> 0,
     interactive_elements |->
        IF gs.result = "Resignation"
        THEN <<"new_game", "continue", "go_to_start", "play_pause",
               "prev", "next", "speed">>
        ELSE <<"new_game", "go_to_start", "play_pause", "prev", "next",
               "speed">>]

\* The number of entries of speed_options
NumSpeeds == 8

\* EvaluationScreen.update_board
update_board(es) ==
    [es EXCEPT !.board = Replay(SubSeq(es.move_history, 1, es.current_move_index))]

\* trigger_action with a "next" that does not stop at the last move
trigger_action_past_end(es, key) ==
    CASE key = "go_to_start" ->
            update_board([es EXCEPT !.is_playing = FALSE,
                                    !.current_move_index = 0])
      [] key = "play_pause" ->
            IF es.current_move_index < Len(es.move_history)
            THEN [es EXCEPT !.is_playing = ~@] ELSE es
      [] key = "prev" ->
            update_board([es EXCEPT !.is_playing = FALSE,
                                    !.current_move_index = Max(0, @ - 1)])
      [] key = "next" ->
            [es EXCEPT !.is_playing = FALSE,
                       !.current_move_index = @ + 1]
      [] key = "speed" ->
            [es EXCEPT !.speed_index = (@ + 1) % NumSpeeds]
      [] OTHER -> es

\* EvaluationScreen.trigger_action(key), for the keys that return None
trigger_action(es, key) ==
    CASE key = "go_to_start" ->
            update_board([es EXCEPT !.is_playing = FALSE,
                                    !.current_move_index = 0])
      [] key = "play_pause" ->
            IF es.current_move_index < Len(es.move_history)
            THEN [es EXCEPT !.is_playing = ~@] ELSE es
      [] key = "prev" ->
            update_board([es EXCEPT !.is_playing = FALSE,
                                    !.current_move_index = Max(0, @ - 1)])
      [] key = "next" ->
            update_board([es EXCEPT
                !.is_playing = FALSE,
                !.current_move_index = Min(Len(es.move_history), @ + 1)])
      [] key = "speed" ->
            [es EXCEPT !.speed_index = (@ + 1) % NumSpeeds]
      [] OTHER -> es

\* ------------------------------------------------------------------------
\* main(): the state
\* ------------------------------------------------------------------------

VARIABLES
    running,            \* main's loop flag
    current_state,      \* the screen main's loop is on
    user_selections,    \* mode, color, difficulty, time, no_time
    game_state,         \* the GameState, or None
    evaluation_screen,  \* the EvaluationScreen, or None
    temp_board,         \* evaluate_moves' replay board while it runs, else <<>>
    pc,                 \* where main's loop is inside the current screen
    ticks,              \* pygame.time.get_ticks()
    crashed,            \* an exception has left main
    pre_resign,         \* history: the session as the last resignation found it
    decided,            \* history: the session's result has been a timeout or
                        \* a natural game end
    login_system,       \* the LoginSystem: the user and their saved games
    resaved,            \* history: Save has been clicked on a saved session
    outstanding         \* the engine requests sent and not yet answered

vars == <<running, current_state, user_selections, game_state,
          evaluation_screen, temp_board, pc, ticks, crashed, pre_resign,
          decided, login_system, resaved, outstanding>>

\* The time limits (in seconds) the time screen is used to choose.
TimeChoices == {0, 10}

Colors == {WHITE, BLACK}

Init ==
    /\ running = TRUE
    /\ current_state = "LOGIN_SCREEN"
    /\ user_selections =
          [mode |-> NoneStr, color |-> NoneStr, difficulty |-> NoneStr,
           time |-> NoneInt, no_time |-> FALSE]
    /\ game_state = None
    /\ evaluation_screen = None
    /\ temp_board = <<>>
    /\ pc = "top"
    /\ ticks = 0
    /\ crashed = FALSE
    /\ pre_resign = None
    /\ decided = FALSE
    /\ login_system = LoginSystem
    /\ resaved = FALSE
    /\ outstanding = <<>>

\* main's loop is about to run the branch of screen s
At(s) == running /\ ~crashed /\ current_state = s

\* What the session part of a step leaves alone
SessionUnchanged ==
    UNCHANGED <<game_state, evaluation_screen, temp_board, ticks, crashed,
                pre_resign, decided>>

\* The wall clock advances between two reads of it.
TimePasses ==
    /\ running /\ ~crashed
    /\ ticks + TickStep <= MaxSteps * TickStep
    /\ ticks' = ticks + TickStep
    /\ UNCHANGED <<login_system, resaved, outstanding, running,
                   current_state, user_selections, game_state,
                   evaluation_screen, temp_board, pc, crashed, pre_resign,
                   decided>>

\* ------------------------------------------------------------------------
\* main(): the configuration screens
\* ------------------------------------------------------------------------

\* LOGIN_SCREEN: show_login_screen returns "next" or "quit"
LoginScreen ==
    /\ At("LOGIN_SCREEN")
    /\ \E action \in {"next", "quit"} :
          /\ running' = (action # "quit")
          /\ current_state' = IF action = "next" THEN "MODE_SCREEN"
                              ELSE current_state
          /\ login_system' = IF action = "next"
                              THEN login(login_system, "user")
                              ELSE login_system
    /\ UNCHANGED <<user_selections, pc, resaved, outstanding>>
    /\ SessionUnchanged

\* What a selection screen returns: the action, and with it the selection,
\* which is the one passed in or one the user clicked; "next" is taken only
\* with a selection, and "quit" returns None.
ScreenReturns(selected, options) ==
    {[action |-> a, value |-> v] :
        a \in {"back", "next"}, v \in options \cup {selected}}
    \cup {[action |-> "quit", value |-> NoneStr]}

ScreenResults(selected, options) ==
    {r \in ScreenReturns(selected, options) :
        r.action = "next" => r.value # NoneStr}

\* What a selection screen returns on "back" or "next" when the user has
\* clicked no option: the selection passed in
ScreenUntouched(selected) ==
    {r \in {[action |-> a, value |-> selected] : a \in {"back", "next"}} :
        r.action = "next" => r.value # NoneStr}

\* MODE_SCREEN
ModeScreen ==
    /\ At("MODE_SCREEN")
    /\ \E r \in ScreenResults(user_selections.mode, Modes) :
          /\ user_selections' = [user_selections EXCEPT !.mode = r.value]
          /\ running' = (r.action # "quit")
          /\ current_state' =
                CASE r.action = "back" -> "LOGIN_SCREEN"
                  [] r.action = "next" /\ r.value = "Human vs AI" -> "COLOR_SCREEN"
                  [] r.action = "next" /\ r.value = "Human vs Human" -> "TIME_SCREEN"
                  [] r.action = "next" /\ r.value = "AI vs AI" -> "GAME_SCREEN"
                  [] OTHER -> current_state
    /\ pc' = "top"
    /\ SessionUnchanged
    /\ UNCHANGED <<login_system, resaved, outstanding>>

\* COLOR_SCREEN
ColorScreen ==
    /\ At("COLOR_SCREEN")
    /\ \E r \in ScreenResults(user_selections.color, Colors) :
          /\ user_selections' = [user_selections EXCEPT !.color = r.value]
          /\ running' = (r.action # "quit")
          /\ current_state' =
                CASE r.action = "back" -> "MODE_SCREEN"
                  [] r.action = "next" -> "DIFFICULTY_SCREEN"
                  [] OTHER -> current_state
    /\ UNCHANGED pc
    /\ SessionUnchanged
    /\ UNCHANGED <<login_system, resaved, outstanding>>

\* DIFFICULTY_SCREEN
DifficultyScreen ==
    /\ At("DIFFICULTY_SCREEN")
    /\ \E r \in ScreenResults(user_selections.difficulty, Difficulties) :
          /\ user_selections' = [user_selections EXCEPT !.difficulty = r.value]
          /\ running' = (r.action # "quit")
          /\ current_state' =
                CASE r.action = "back" -> "COLOR_SCREEN"
                  [] r.action = "next" -> "TIME_SCREEN"
                  [] OTHER -> current_state
    /\ UNCHANGED pc
    /\ SessionUnchanged
    /\ UNCHANGED <<login_system, resaved, outstanding>>

\* What the time fields hold once the time screen's loop has run: the time
\* passed in (0:00:00 when none was), or no time when "No Time" is selected.
ShownTime(selected_time, no_time_selected) ==
    IF no_time_selected THEN NoneInt
    ELSE IF selected_time = NoneInt THEN 0 ELSE selected_time

\* What show_time_selection_screen(selected_time, no_time_selected) returns.
\* "back" returns the two values as they are: as passed in when the click is
\* in the first batch of events, else as the loop last set them; "next"
\* returns the time shown, or None with "No Time"; "quit" returns None.
TimeScreenResults(selected_time, no_time_selected) ==
    LET shown == {[time |-> ShownTime(selected_time, no_time_selected),
                   no_time |-> no_time_selected]}
                 \cup {[time |-> t, no_time |-> FALSE] : t \in TimeChoices}
                 \cup {[time |-> NoneInt, no_time |-> TRUE]}
        first == [time |-> selected_time, no_time |-> no_time_selected]
    IN  {[action |-> "back", time |-> s.time, no_time |-> s.no_time] :
            s \in shown \cup {first}}
        \cup {[action |-> "next", time |-> s.time, no_time |-> s.no_time] :
                s \in shown \cup
                      (IF selected_time # NoneInt \/ no_time_selected
                       THEN {[time |-> IF no_time_selected THEN NoneInt
                                       ELSE ShownTime(selected_time, FALSE),
                              no_time |-> no_time_selected]}
                       ELSE {})}
        \cup {[action |-> "quit", time |-> NoneInt, no_time |-> FALSE]}

\* What show_time_selection_screen returns on "back" or "next" when the
\* user has touched neither the time fields nor "No Time": "back" returns
\* the values passed in when it comes in the first batch of events, and
\* after that the time shown; "next" returns the time shown
TimeScreenUntouched(selected_time, no_time_selected) ==
    LET shown == [time |-> ShownTime(selected_time, no_time_selected),
                  no_time |-> no_time_selected]
        first == [time |-> selected_time, no_time |-> no_time_selected]
    IN  {[action |-> "back", time |-> s.time, no_time |-> s.no_time] :
            s \in {shown, first}}
        \cup {[action |-> "next", time |-> shown.time,
                no_time |-> shown.no_time]}

\* TIME_SCREEN
TimeScreen ==
    /\ At("TIME_SCREEN")
    /\ \E r \in TimeScreenResults(user_selections.time, user_selections.no_time) :
          /\ user_selections' = [user_selections EXCEPT !.time = r.time,
                                                        !.no_time = r.no_time]
          /\ running' = (r.action # "quit")
          /\ current_state' =
                CASE r.action = "back" ->
                        IF user_selections.mode = "Human vs Human"
                        THEN "MODE_SCREEN" ELSE "DIFFICULTY_SCREEN"
                  [] r.action = "next" -> "GAME_SCREEN"
                  [] OTHER -> current_state
          /\ game_state' =
                IF r.action = "next"
                THEN GameState(user_selections.mode, user_selections.color,
                               r.time, user_selections.difficulty, ticks)
                ELSE game_state
          /\ decided' = IF r.action = "next" THEN FALSE ELSE decided
          /\ pre_resign' = IF r.action = "next" THEN None ELSE pre_resign
    /\ pc' = "top"
    /\ UNCHANGED <<login_system, resaved, outstanding, evaluation_screen,
                   temp_board, ticks, crashed>>

\* ------------------------------------------------------------------------
\* main(): the game screen
\* ------------------------------------------------------------------------

\* GAME_SCREEN without a game_state: the session is created
CreateGameState ==
    /\ At("GAME_SCREEN")
    /\ game_state = None
    /\ game_state' = GameState(user_selections.mode, user_selections.color,
                               user_selections.time,
                               user_selections.difficulty, ticks)
    /\ decided' = FALSE
    /\ pre_resign' = None
    /\ pc' = "top"
    /\ UNCHANGED <<login_system, resaved, outstanding, running,
                   current_state, user_selections, evaluation_screen,
                   temp_board, ticks, crashed>>

\* Whether the engine moves in this refresh tick
EngineTurn(gs) ==
    \/ /\ gs.game_mode = "Human vs AI"
       /\ gs.board.turn # gs.human_color
       /\ ~gs.game_over
    \/ /\ gs.game_mode = "AI vs AI"
       /\ ~gs.game_over

\* The session after the first part of a refresh tick: check_game_over, the
\* engine's move when it is the engine's turn, and check_time at time now
RefreshTick(gs, move, now) ==
    LET checked == check_game_over(gs)
        played  == IF EngineTurn(checked) THEN get_ai_move(checked, move)
                   ELSE checked
    IN  check_time(played, now)

\* The results that a timeout or the rules provider sets
DecidedResults ==
    {"Time out for White", "Time out for Black", "1-0", "0-1", "1/2-1/2"}

\* GAME_SCREEN with a session in progress: a refresh tick up to the start of
\* the event loop.  The engine's search (and the wait after it in AI vs AI)
\* takes one of the times in `search`.
GameTick(search) ==
    /\ At("GAME_SCREEN")
    /\ game_state # None
    /\ ~game_state.game_over
    /\ LET engine == EngineTurn(check_game_over(game_state))
       IN  \E move \in (IF engine THEN EngineMoves(game_state.board) ELSE {None}),
              spent \in (IF engine THEN search ELSE {0}) :
              /\ ticks + spent <= MaxSteps * TickStep
              /\ ticks' = ticks + spent
              /\ game_state' = RefreshTick(game_state, move, ticks')
              /\ outstanding' = IF engine THEN EngineCall(outstanding, "play")
                                ELSE outstanding
    /\ Len(game_state'.move_history) <= MaxMoves
    /\ decided' = (decided \/ (game_state'.game_over
                                 /\ game_state'.result \in DecidedResults))
    /\ pc' = "events"
    /\ UNCHANGED <<login_system, resaved, running, current_state,
                   user_selections, evaluation_screen, temp_board, crashed,
                   pre_resign>>

\* An event of the game screen's event loop is being handled
InEvents == At("GAME_SCREEN") /\ game_state # None /\ pc = "events"

\* MOUSEBUTTONDOWN on a square of the board
ClickBoard(square) ==
    /\ InEvents
    /\ game_state' = handle_click(game_state, square, ticks)
    /\ Len(game_state'.move_history) <= MaxMoves
    /\ UNCHANGED <<login_system, resaved, outstanding, running,
                   current_state, user_selections, evaluation_screen,
                   temp_board, pc, ticks, crashed, pre_resign, decided>>

\* MOUSEBUTTONDOWN on the Resign button (handle_click finds it off the board)
ClickResign ==
    /\ InEvents
    /\ game_state' = [handle_click(game_state, NoneInt, ticks) EXCEPT
                         !.game_over = TRUE, !.result = "Resignation"]
    /\ pre_resign' = [move_history |-> game_state.move_history,
                      board |-> game_state.board,
                      remaining_time |-> game_state.remaining_time,
                      game_over |-> game_state.game_over,
                      start_time |-> game_state.start_time,
                      is_timer_running |-> game_state.is_timer_running,
                      at |-> ticks]
    /\ UNCHANGED <<login_system, resaved, outstanding, running,
                   current_state, user_selections, evaluation_screen,
                   temp_board, pc, ticks, crashed, decided>>

\* MOUSEBUTTONDOWN on the Hint button, which AI vs AI does not have
ClickHint ==
    /\ InEvents
    /\ user_selections.mode # "AI vs AI"
    /\ Len(game_state.hints_used) < MaxHints
    /\ \E move \in HintMoves(game_state.board) :
          game_state' =
             IF game_state.game_mode \in {"Human vs AI", "Human vs Human"}
             THEN get_hint(handle_click(game_state, NoneInt, ticks), move)
             ELSE handle_click(game_state, NoneInt, ticks)
    /\ login_system' = SharedHints(login_system, game_state')
    /\ outstanding' =
          IF game_state.game_mode \in {"Human vs AI", "Human vs Human"}
          THEN EngineCall(outstanding, "hint") ELSE outstanding
    /\ UNCHANGED <<resaved, running, current_state, user_selections,
                   evaluation_screen, temp_board, pc, ticks, crashed,
                   pre_resign, decided>>

\* The Save button without the is_saved test of main
ClickSaveUnmarked ==
    /\ InEvents
    /\ game_state.is_saved \/ Len(login_system.saved_games) < MaxSaves
    /\ LET clicked == handle_click(game_state, NoneInt, ticks)
       IN  /\ login_system' = save_game(login_system, clicked)
           /\ game_state' = [clicked EXCEPT !.is_saved = TRUE]
           /\ resaved' = (resaved \/ clicked.is_saved)
    /\ UNCHANGED <<outstanding, running, current_state, user_selections,
                   evaluation_screen, temp_board, pc, ticks, crashed,
                   pre_resign, decided>>

\* MOUSEBUTTONDOWN on the Save button: the click goes to handle_click, which
\* finds it off the board, and then to save_game unless the session is
\* marked saved; the mark is set whether or not a record was written
ClickSave ==
    /\ InEvents
    /\ game_state.is_saved \/ Len(login_system.saved_games) < MaxSaves
    /\ LET clicked == handle_click(game_state, NoneInt, ticks)
       IN  IF ~clicked.is_saved
           THEN /\ login_system' = save_game(login_system, clicked)
                /\ game_state' = [clicked EXCEPT !.is_saved = TRUE]
                /\ resaved' = resaved
           ELSE /\ login_system' = login_system
                /\ game_state' = clicked
                /\ resaved' = TRUE
    /\ UNCHANGED <<outstanding, running, current_state, user_selections,
                   evaluation_screen, temp_board, pc, ticks, crashed,
                   pre_resign, decided>>

\* pygame.QUIT in the game screen's event loop: main's loop ends with this
\* pass
QuitGame ==
    /\ InEvents
    /\ running' = FALSE
    /\ UNCHANGED <<login_system, resaved, outstanding, current_state,
                   user_selections, game_state, evaluation_screen,
                   temp_board, pc, ticks, crashed, pre_resign, decided>>

\* ------------------------------------------------------------------------
\* main(): the evaluation screen
\* ------------------------------------------------------------------------

\* GAME_SCREEN with a session that is over: EvaluationScreen(game_state) is
\* constructed, and its evaluate_moves starts on a new board
EnterEvaluation ==
    /\ At("GAME_SCREEN")
    /\ game_state # None
    /\ game_state.game_over
    /\ pc # "evaluate_moves"
    /\ evaluation_screen' = EvaluationScreen(game_state, ticks)
    /\ temp_board' = <<InitialBoard>>
    /\ pc' = "evaluate_moves"
    /\ UNCHANGED <<login_system, resaved, outstanding, running,
                   current_state, user_selections, game_state, ticks,
                   crashed, pre_resign, decided>>

\* The move the next pass of evaluate_moves' loop evaluates
NextEvaluated == Len(evaluation_screen.evaluated_moves) + 1

\* The answers of engine.analyse among which a match followed for its play
\* draws: the score 0 with a principal move or without one
PlainAnswers == {[has_score |-> TRUE, score |-> 0]}

\* An entry with the notation taken in the starting position
EvaluatedMoveAtStart(board, move, color) ==
    [move |-> San(InitialBoard, move), color |-> color]

\* The entry evaluate_moves appends for a move: its notation on temp_board
\* as get_move_evaluation left it, and the colour
EvaluatedMove(board, move, color) ==
    [move |-> San(Top(board), move), color |-> color]

\* A pass of evaluate_moves' loop that works on the session's board
EvaluateMoveOnLiveBoard(answers) ==
    /\ At("GAME_SCREEN")
    /\ pc = "evaluate_moves"
    /\ NextEvaluated <= Len(evaluation_screen.move_history)
    /\ LET move == evaluation_screen.move_history[NextEvaluated]
       IN  /\ evaluation_screen' =
                 [evaluation_screen EXCEPT !.evaluated_moves =
                     Append(@, EvaluatedMove(<<game_state.board>>, move, "red"))]
           /\ game_state' = [game_state EXCEPT !.board = Push(@, move)]
    /\ outstanding' = EngineCall(outstanding, "analyse")
    /\ UNCHANGED <<login_system, resaved, running, current_state,
                   user_selections, temp_board, pc, ticks, crashed,
                   pre_resign, decided>>

\* One pass of the loop of evaluate_moves: get_move_evaluation, san, push.
\* san and push raise on a move whose from-square is empty.  The engine's
\* two analyses answer with scores among `answers`.
EvaluateMove(answers) ==
    /\ At("GAME_SCREEN")
    /\ pc = "evaluate_moves"
    /\ NextEvaluated <= Len(evaluation_screen.move_history)
    /\ LET move == evaluation_screen.move_history[NextEvaluated]
       IN  \E info \in {i \in Infos(Top(temp_board)) :
                           [has_score |-> i.has_score, score |-> i.score]
                               \in answers},
              new_info \in answers :
              LET r == get_move_evaluation(temp_board, move, info, new_info)
              IN  /\ outstanding' =
                        EngineCalls(outstanding, "analyse", r.analyses)
                  /\ IF r.raised \/ Top(r.board).pieces[move.from_square] = "."
                     THEN /\ crashed' = TRUE
                          /\ temp_board' = r.board
                          /\ UNCHANGED evaluation_screen
                     ELSE /\ evaluation_screen' =
                                [evaluation_screen EXCEPT !.evaluated_moves =
                                    Append(@, EvaluatedMove(r.board, move,
                                                            r.color))]
                          /\ temp_board' = PushS(r.board, move)
                          /\ UNCHANGED crashed
    /\ UNCHANGED <<login_system, resaved, running, current_state,
                   user_selections, game_state, pc, ticks, pre_resign,
                   decided>>

\* evaluate_moves and the constructor return: main goes to EVALUATION_SCREEN
EvaluationDone ==
    /\ At("GAME_SCREEN")
    /\ pc = "evaluate_moves"
    /\ NextEvaluated > Len(evaluation_screen.move_history)
    /\ current_state' = "EVALUATION_SCREEN"
    /\ temp_board' = <<>>
    /\ pc' = "top"
    /\ UNCHANGED <<login_system, resaved, outstanding, running,
                   user_selections, game_state, evaluation_screen, ticks,
                   crashed, pre_resign, decided>>

\* An event of the evaluation screen's event loop is being handled
InReview == At("EVALUATION_SCREEN")

\* trigger_action(key) on the evaluation screen es, and main's handling of
\* what it returns: "start_new_game" for New Game, "continue_game" for
\* Continue, None for the other buttons.  main leaves the evaluation screen
\* on the first two and never reads that EvaluationScreen again (the next
\* one is constructed before any use), so the model drops it there, and
\* with it the record of the resignation.
Trigger(es, key) ==
    CASE key = "new_game" -> /\ evaluation_screen' = None
                             /\ current_state' = "MODE_SCREEN"
                             /\ game_state' = None
                             /\ pc' = "top"
                             /\ pre_resign' = None
      [] key = "continue" -> /\ evaluation_screen' = None
                             /\ current_state' = "GAME_SCREEN"
                             /\ game_state' = [game_state EXCEPT !.game_over = FALSE]
                             /\ pc' = "top"
                             /\ pre_resign' = None
      [] OTHER -> /\ evaluation_screen' = trigger_action(es, key)
                  /\ UNCHANGED <<current_state, game_state, pc, pre_resign>>

\* The 0-based index of key in interactive_elements
ElementIndex(es, key) ==
    CHOOSE i \in 0 .. Len(es.interactive_elements) - 1 :
        es.interactive_elements[i + 1] = key

FocusedKey(es) == es.interactive_elements[es.focus_index + 1]

\* The buttons of the evaluation screen
Buttons ==
    {"new_game", "continue", "go_to_start", "play_pause", "prev", "next",
     "speed"}

\* Whether the evaluation screen has button `key`
HasButton(es, key) ==
    \E i \in 1 .. Len(es.interactive_elements) : es.interactive_elements[i] = key

\* handle_events: MOUSEBUTTONDOWN on button `key`
ReviewClick(key) ==
    /\ InReview
    /\ HasButton(evaluation_screen, key)
    /\ Trigger([evaluation_screen EXCEPT
                   !.focus_index = ElementIndex(evaluation_screen, key)],
               key)
    /\ UNCHANGED <<login_system, resaved, outstanding, running,
                   user_selections, temp_board, ticks, crashed, decided>>

\* handle_events: KEYDOWN of TAB, RETURN, UP or DOWN
ReviewKey ==
    /\ InReview
    /\ \E k \in {"TAB", "RETURN", "UP", "DOWN"} :
          LET es == evaluation_screen
          IN  CASE k = "TAB" ->
                    /\ evaluation_screen' =
                          [es EXCEPT !.focus_index =
                              (@ + 1) % Len(es.interactive_elements)]
                    /\ UNCHANGED <<current_state, game_state, pc, pre_resign>>
                [] k = "RETURN" -> Trigger(es, FocusedKey(es))
                [] k = "UP" ->
                    /\ evaluation_screen' =
                          IF FocusedKey(es) = "speed"
                          THEN [es EXCEPT !.speed_index = Max(0, @ - 1)]
                          ELSE es
                    /\ UNCHANGED <<current_state, game_state, pc, pre_resign>>
                [] k = "DOWN" ->
                    /\ evaluation_screen' =
                          IF FocusedKey(es) = "speed"
                          THEN [es EXCEPT !.speed_index = Min(NumSpeeds - 1, @ + 1)]
                          ELSE es
                    /\ UNCHANGED <<current_state, game_state, pc, pre_resign>>
    /\ UNCHANGED <<login_system, resaved, outstanding, running,
                   user_selections, temp_board, ticks, crashed, decided>>

\* pygame.QUIT in the evaluation screen's event loop
QuitReview ==
    /\ InReview
    /\ running' = FALSE
    /\ UNCHANGED <<login_system, resaved, outstanding, current_state,
                   user_selections, game_state, evaluation_screen,
                   temp_board, pc, ticks, crashed, pre_resign, decided>>

\* EvaluationScreen.update_and_draw: autoplay shows the next move once more
\* than 1000 / speed milliseconds have passed, speed being
\* speed_options[speed_index] = (speed_index + 1) / 4
update_and_draw(es, now) ==
    IF /\ es.is_playing
       /\ (now - es.last_move_time) * (es.speed_index + 1) > 4000
       /\ es.current_move_index < Len(es.move_history)
    THEN [es EXCEPT !.current_move_index = @ + 1, !.last_move_time = now]
    ELSE es

\* EVALUATION_SCREEN: the end of a pass of main's loop
UpdateAndDraw ==
    /\ At("EVALUATION_SCREEN")
    /\ evaluation_screen' = update_and_draw(evaluation_screen, ticks)
    /\ UNCHANGED <<login_system, resaved, outstanding, running,
                   current_state, user_selections, game_state, temp_board,
                   pc, ticks, crashed, pre_resign, decided>>

\* ------------------------------------------------------------------------
\* The program
\* ------------------------------------------------------------------------

Next ==
    \/ TimePasses
    \/ LoginScreen
    \/ ModeScreen
    \/ ColorScreen
    \/ DifficultyScreen
    \/ TimeScreen
    \/ CreateGameState
    \/ GameTick({0, TickStep})
    \/ \E square \in Squares : ClickBoard(square)
    \/ ClickResign
    \/ ClickHint
    \/ ClickSave
    \/ QuitGame
    \/ EnterEvaluation
    \/ EvaluateMove(ScoreAnswers)
    \/ EvaluationDone
    \/ \E key \in Buttons : ReviewClick(key)
    \/ ReviewKey
    \/ QuitReview
    \/ UpdateAndDraw

Spec == Init /\ [][Next]_vars

\* ------------------------------------------------------------------------
\* The match session: main from the start of a match on
\* ------------------------------------------------------------------------

\* main when the configuration screens have been passed with the selections
\* sel: on GAME_SCREEN, with the session the time screen's "next" created,
\* or in AI vs AI with none yet
MatchStart(sel) ==
    /\ running = TRUE
    /\ current_state = "GAME_SCREEN"
    /\ user_selections = sel
    /\ game_state =
          IF sel.mode = "AI vs AI" THEN None
          ELSE GameState(sel.mode, sel.color, sel.time, sel.difficulty, 0)
    /\ evaluation_screen = None
    /\ temp_board = <<>>
    /\ pc = "top"
    /\ ticks = 0
    /\ crashed = FALSE
    /\ pre_resign = None
    /\ decided = FALSE
    /\ login_system = login(LoginSystem, "user")
    /\ resaved = FALSE
    /\ outstanding = <<>>

\* The configuration screens from the start of main, up to the start of a
\* match
NextConfig ==
    \/ LoginScreen
    \/ ModeScreen
    \/ ColorScreen
    \/ DifficultyScreen
    \/ TimeScreen
    \/ CreateGameState

SpecConfig == Init /\ [][NextConfig]_vars

\* Matches without a time limit, in the three modes
PlaySelections ==
    {[mode |-> "Human vs Human", color |-> NoneStr, difficulty |-> NoneStr,
      time |-> NoneInt, no_time |-> TRUE],
     [mode |-> "Human vs AI", color |-> WHITE, difficulty |-> "Medium",
      time |-> NoneInt, no_time |-> TRUE],
     [mode |-> "Human vs AI", color |-> BLACK, difficulty |-> "Hard",
      time |-> NoneInt, no_time |-> TRUE],
     [mode |-> "AI vs AI", color |-> NoneStr, difficulty |-> NoneStr,
      time |-> NoneInt, no_time |-> FALSE]}

InitPlay == \E sel \in PlaySelections : MatchStart(sel)

NextPlay ==
    \/ CreateGameState
    \/ GameTick({0})
    \/ \E square \in Squares : ClickBoard(square)
    \/ ClickResign
    \/ ClickHint
    \/ EnterEvaluation
    \/ EvaluateMove(PlainAnswers)
    \/ EvaluationDone
    \/ \E key \in {"new_game", "continue"} : ReviewClick(key)

SpecPlay == InitPlay /\ [][NextPlay]_vars

\* Matches of two humans, with the Save button
SaveSelections ==
    {[mode |-> "Human vs Human", color |-> NoneStr, difficulty |-> NoneStr,
      time |-> NoneInt, no_time |-> TRUE]}

InitSave == \E sel \in SaveSelections : MatchStart(sel)

NextSave ==
    \/ GameTick({0})
    \/ \E square \in Squares : ClickBoard(square)
    \/ ClickResign
    \/ ClickHint
    \/ ClickSave
    \/ EnterEvaluation
    \/ EvaluateMove(PlainAnswers)
    \/ EvaluationDone
    \/ \E key \in {"new_game", "continue"} : ReviewClick(key)

SpecSave == InitSave /\ [][NextSave]_vars

\* Matches of two humans with the time limit the time screen shows at
\* first, 0 seconds
ZeroClockSelections ==
    {[mode |-> "Human vs Human", color |-> NoneStr, difficulty |-> NoneStr,
      time |-> 0, no_time |-> FALSE]}

InitZeroClock == \E sel \in ZeroClockSelections : MatchStart(sel)

NextZeroClock ==
    \/ TimePasses
    \/ GameTick({0})
    \/ \E square \in Squares : ClickBoard(square)
    \/ ClickResign
    \/ EnterEvaluation
    \/ EvaluateMove(PlainAnswers)
    \/ EvaluationDone
    \/ \E key \in {"new_game", "continue"} : ReviewClick(key)

SpecZeroClock == InitZeroClock /\ [][NextZeroClock]_vars

\* Matches without a time limit, with time passing
UntimedSelections ==
    {[mode |-> "Human vs Human", color |-> NoneStr, difficulty |-> NoneStr,
      time |-> NoneInt, no_time |-> TRUE],
     [mode |-> "Human vs AI", color |-> BLACK, difficulty |-> "Hard",
      time |-> NoneInt, no_time |-> TRUE],
     [mode |-> "AI vs AI", color |-> NoneStr, difficulty |-> NoneStr,
      time |-> NoneInt, no_time |-> FALSE]}

InitUntimed == \E sel \in UntimedSelections : MatchStart(sel)

NextUntimed ==
    \/ TimePasses
    \/ CreateGameState
    \/ GameTick({0, TickStep})
    \/ \E square \in Squares : ClickBoard(square)
    \/ ClickResign
    \/ EnterEvaluation
    \/ EvaluateMove(PlainAnswers)
    \/ EvaluationDone
    \/ \E key \in {"new_game", "continue"} : ReviewClick(key)

SpecUntimed == InitUntimed /\ [][NextUntimed]_vars

\* Matches with a time limit of 10 seconds
ClockSelections ==
    {[mode |-> "Human vs Human", color |-> NoneStr, difficulty |-> NoneStr,
      time |-> 10, no_time |-> FALSE],
     [mode |-> "Human vs AI", color |-> BLACK, difficulty |-> "Easy",
      time |-> 10, no_time |-> FALSE]}

InitClock == \E sel \in ClockSelections : MatchStart(sel)

NextClock ==
    \/ TimePasses
    \/ GameTick({0, TickStep})
    \/ \E square \in Squares : ClickBoard(square)
    \/ ClickResign
    \/ EnterEvaluation
    \/ EvaluateMove(PlainAnswers)
    \/ EvaluationDone
    \/ \E key \in {"new_game", "continue"} : ReviewClick(key)

SpecClock == InitClock /\ [][NextClock]_vars

\* ------------------------------------------------------------------------
\* The evaluation and the review of a match of two humans
\* ------------------------------------------------------------------------

ReviewSelections ==
    {[mode |-> "Human vs Human", color |-> NoneStr, difficulty |-> NoneStr,
      time |-> NoneInt, no_time |-> TRUE]}

InitReview == \E sel \in ReviewSelections : MatchStart(sel)

\* The evaluation pass with every answer of the analyser
NextEval ==
    \/ GameTick({0})
    \/ \E square \in Squares : ClickBoard(square)
    \/ ClickResign
    \/ EnterEvaluation
    \/ EvaluateMove(ScoreAnswers)
    \/ EvaluationDone
    \/ \E key \in {"new_game", "continue"} : ReviewClick(key)

SpecEval == InitReview /\ [][NextEval]_vars

\* The buttons that step through the moves of the match
ScrubButtons == {"go_to_start", "play_pause", "prev", "next"}

\* The evaluation pass and the evaluation screen with autoplay and the
\* mouse on the buttons other than the one for the speed
NextReview ==
    \/ TimePasses
    \/ GameTick({0})
    \/ \E square \in Squares : ClickBoard(square)
    \/ ClickResign
    \/ EnterEvaluation
    \/ EvaluateMove(PlainAnswers)
    \/ EvaluationDone
    \/ \E key \in ScrubButtons \cup {"new_game", "continue"} : ReviewClick(key)
    \/ UpdateAndDraw

SpecReview == InitReview /\ [][NextReview]_vars

\* ------------------------------------------------------------------------
\* Properties
\* ------------------------------------------------------------------------

\* C1: after any sequence of human moves, engine moves, hints, resign and
\* continue, replaying move_history from the starting position gives the
\* session's board.
C1_ReplayGivesBoard ==
    game_state # None =>
        game_state.board = Replay(game_state.move_history)

\* C1: a match against the engine with a human move and an engine move,
\* a hint taken, resigned and continued
C1_Witness ==
    /\ game_state # None
    /\ game_state.game_mode = "Human vs AI"
    /\ Len(game_state.move_history) >= 2
    /\ Len(game_state.hints_used) >= 1
    /\ game_state.result = "Resignation"
    /\ ~game_state.game_over

\* Whether the selected square and `square` are the two squares of a legal
\* move of the session's position
FormsLegalMove(gs, square) ==
    \E m \in LegalMoves(gs.board) :
        m.from_square = gs.selected_square /\ m.to_square = square

\* C2: a click on a square that makes no legal move with the selected square
\* leaves the board, the side to move and move_history as they are and
\* clears the selection.
C2_IllegalDestinationClearsSelection ==
    [][\A square \in Squares :
          (/\ ClickBoard(square)
           /\ game_state.selected_square # NoneInt
           /\ ~FormsLegalMove(game_state, square))
          => /\ game_state'.board = game_state.board
             /\ game_state'.move_history = game_state.move_history
             /\ game_state'.selected_square = NoneInt
             /\ game_state'.valid_moves = {}]_vars

\* C3: a legal human move under a time limit is appended to move_history,
\* flips the side to move, takes the time elapsed since the last tick from
\* the clock of the side that moved and leaves the other clock alone.
C3_HumanMoveTicksMoversClock ==
    [][\A square \in Squares :
          (/\ ClickBoard(square)
           /\ game_state.time_limit # NoneInt
           /\ game_state'.move_history # game_state.move_history)
          => LET mover == game_state.board.turn
                 move  == Move(game_state.selected_square, square, NoneStr)
             IN  /\ game_state'.move_history =
                       Append(game_state.move_history, move)
                 /\ game_state'.board.turn = Other(mover)
                 /\ game_state'.remaining_time[mover] =
                       game_state.remaining_time[mover]
                           - (ticks - game_state.start_time)
                 /\ game_state'.remaining_time[Other(mover)] =
                       game_state.remaining_time[Other(mover)]]_vars

\* evaluate_moves is about to evaluate a move of the match
Evaluating ==
    /\ pc = "evaluate_moves"
    /\ ~crashed
    /\ NextEvaluated <= Len(evaluation_screen.move_history)

\* C4: in every position before a move, in check or not, a played move that
\* is the first move of the analyser's principal line is classified green.
C4_PrincipalMoveIsBest ==
    Evaluating =>
        LET move == evaluation_screen.move_history[NextEvaluated]
        IN  \A info \in Infos(Top(temp_board)), new_info \in ScoreAnswers :
               (info.has_score /\ info.pv = move)
               => get_move_evaluation(temp_board, move, info, new_info).color
                     = "green"

\* C5: a played legal move other than the principal move, both analyses
\* giving a score, is blue when |s - t| <= 100 and red otherwise, t being
\* the score after the move from the mover's side: the analyser's score of
\* the new position, negated.
C5_AcceptableIffSmallDelta ==
    Evaluating =>
        LET move == evaluation_screen.move_history[NextEvaluated]
        IN  \A info \in Infos(Top(temp_board)), new_info \in ScoreAnswers :
               (/\ info.has_score
                /\ new_info.has_score
                /\ info.pv # None
                /\ info.pv # move
                /\ move \in LegalMoves(Top(temp_board)))
               => get_move_evaluation(temp_board, move, info, new_info).color
                     = (IF Abs(info.score - (0 - new_info.score)) <= 100
                        THEN "blue" ELSE "red")

\* C6: Continue after the resignation of a session in progress gives a
\* session in progress whose move_history, board and two clocks are those
\* the resignation found.
C6_ContinueRestoresSession ==
    [][(/\ InReview
        /\ current_state' = "GAME_SCREEN"
        /\ pre_resign # None
        /\ ~pre_resign.game_over)
       => /\ ~game_state'.game_over
          /\ game_state'.move_history = pre_resign.move_history
          /\ game_state'.board = pre_resign.board
          /\ game_state'.remaining_time = pre_resign.remaining_time]_vars

\* C7: a session whose result has been a timeout or a natural game end stays
\* over, and the evaluation screen offers Continue only for a match that a
\* resignation ended.
C7_OverIsOneWay ==
    /\ (game_state # None /\ decided) => game_state.game_over
    /\ (evaluation_screen # None /\ HasButton(evaluation_screen, "continue"))
          => ~decided

\* C8: evaluate_moves gives one entry for each move of move_history, in the
\* order of play, entry i with the notation of move i in the position
\* before it; when it has returned there are as many entries as moves.
C8_OneEntryPerMove ==
    evaluation_screen # None =>
        LET es == evaluation_screen
        IN  /\ es.move_history = game_state.move_history
            /\ Len(es.evaluated_moves) <= Len(es.move_history)
            /\ \A i \in 1 .. Len(es.evaluated_moves) :
                  es.evaluated_moves[i].move =
                     San(Replay(SubSeq(es.move_history, 1, i - 1)),
                         es.move_history[i])
            /\ current_state = "EVALUATION_SCREEN"
                  => Len(es.evaluated_moves) = Len(es.move_history)

\* C8: the evaluation of a match of two moves, the second a capture, has
\* returned
C8_Witness ==
    /\ current_state = "EVALUATION_SCREEN"
    /\ evaluation_screen # None
    /\ Len(evaluation_screen.evaluated_moves) >= 2
    /\ evaluation_screen.evaluated_moves[2].move.capture

\* C9: the evaluation pass and the evaluation screen (go to start, previous,
\* next, autoplay) leave the session's board and move_history as they are.
C9_ReviewLeavesSessionAlone ==
    [][(/\ evaluation_screen # None \/ evaluation_screen' # None
        /\ game_state' # None)
       => /\ game_state'.board = game_state.board
          /\ game_state'.move_history = game_state.move_history]_vars

\* C9: the evaluation screen shows a position of the match that is not the
\* session's, reached by stepping or by autoplay
C9_Witness ==
    /\ current_state = "EVALUATION_SCREEN"
    /\ evaluation_screen # None
    /\ evaluation_screen.current_move_index >= 1
    /\ evaluation_screen.board # InitialBoard
    /\ evaluation_screen.board # game_state.board

\* C10: over steps without a move the remaining time of the side to move
\* does not grow and the remaining time of the other side stays the same.
C10_TickChargesRunningSide ==
    [][(/\ game_state # None
        /\ game_state' # None
        /\ game_state'.move_history = game_state.move_history)
       => LET turn == game_state.board.turn
          IN  /\ game_state'.remaining_time[turn]
                    <= game_state.remaining_time[turn]
              /\ game_state'.remaining_time[Other(turn)]
                    = game_state.remaining_time[Other(turn)]]_vars

\* C10: in a match of two humans check_time has run Black's clock out
\* after White's move, White's clock still full
C10_Witness ==
    /\ game_state # None
    /\ game_state.game_mode = "Human vs Human"
    /\ game_state.time_limit # NoneInt
    /\ game_state.result = "Time out for Black"
    /\ game_state.remaining_time[BLACK] <= 0
    /\ game_state.remaining_time[WHITE] = game_state.time_limit * 1000

\* C11: when the engine answers an engine-controlled turn with no move, the
\* session is over by the end of that refresh tick (so that no later tick
\* asks the engine again for the turn).
C11_NoEngineMoveEndsSession ==
    [][(/\ GameTick({0})
        /\ EngineTurn(check_game_over(game_state))
        /\ game_state'.move_history = game_state.move_history)
       => game_state'.game_over]_vars

\* C12: when an analysis made for a move gives no usable answer (no score or
\* no principal line from the first analysis, no score from the look-ahead
\* one), get_move_evaluation returns blue with the board as it was given,
\* and no exception ends the evaluation pass.
C12_FailedAnalysisIsAcceptable ==
    /\ ~crashed
    /\ Evaluating =>
          LET move == evaluation_screen.move_history[NextEvaluated]
              board == Top(temp_board)
          IN  \A info \in Infos(board), new_info \in ScoreAnswers :
                 LET lookahead == /\ info.has_score
                                  /\ ~IsCheck(board)
                                  /\ move \in LegalMoves(board)
                                  /\ info.pv # None
                                  /\ info.pv # move
                     failed == \/ ~info.has_score
                               \/ info.pv = None
                               \/ lookahead /\ ~new_info.has_score
                     r == get_move_evaluation(temp_board, move, info, new_info)
                 IN  failed => /\ ~r.raised
                               /\ r.color = "blue"
                               /\ r.board = temp_board


\* C13: once a session is marked saved, a further click on Save, also after
\* a resignation and Continue, adds no record to saved_games and changes
\* nothing else of the program's state; and as long as the session stays the
\* marked one, no step of any kind adds a record.
C13_SecondSaveChangesNothing ==
    [][(game_state # None /\ game_state.is_saved)
       => /\ ClickSave
             => UNCHANGED <<running, current_state, user_selections,
                             game_state, evaluation_screen, temp_board, pc,
                             ticks, crashed, login_system>>
          /\ (game_state' # None /\ game_state'.is_saved)
             => Len(login_system'.saved_games) =
                   Len(login_system.saved_games)]_vars

\* A saved session was resigned and continued, and Save was clicked again
C13_Witness ==
    /\ game_state # None
    /\ game_state.is_saved
    /\ game_state.result = "Resignation"
    /\ ~game_state.game_over
    /\ current_state = "GAME_SCREEN"
    /\ resaved
    /\ Len(login_system.saved_games) = 1


\* C14: get_move_evaluation makes exactly one engine analysis for a move
\* that is the engine's principal move, and exactly two, one before and one
\* after the move, for every other move.
C14_OneOrTwoAnalyses ==
    Evaluating =>
       LET move == evaluation_screen.move_history[NextEvaluated]
       IN  \A info \in Infos(Top(temp_board)), new_info \in ScoreAnswers :
              get_move_evaluation(temp_board, move, info, new_info).analyses =
                 IF info.pv = move THEN 1 ELSE 2


\* C15: with no square selected, a click on an empty square, or on a square
\* that does not hold a piece of the side to move, does nothing in any game
\* mode: selected_square stays unset, valid_moves stays empty, and the rest
\* of the session is as before.
C15_ClickWithoutOwnPieceIsNoOp ==
    [][\A square \in Squares :
          (/\ ClickBoard(square)
           /\ game_state.selected_square = NoneInt
           /\ \/ game_state.board.pieces[square] = "."
              \/ PieceColor(game_state.board.pieces[square]) #
                    game_state.board.turn)
          => /\ game_state'.selected_square = NoneInt
             /\ game_state'.valid_moves = {}
             /\ game_state' = game_state]_vars


\* C16: a click on Resign that arrives when the session is already over,
\* for example after a timeout or a natural end found in the same refresh
\* tick, leaves game_over and result as they were.
C16_ResignWhenOverChangesNothing ==
    [][(ClickResign /\ game_state.game_over)
       => /\ game_state'.game_over = game_state.game_over
          /\ game_state'.result = game_state.result]_vars

\* C17: a resigned session that was continued is in progress and has no
\* result until a new end of the game sets one.
C17_ContinuedSessionHasNoResult ==
    (game_state # None /\ ~game_state.game_over)
       => game_state.result = NoneStr


\* A step ends the session with a timeout result
TimedOutNow ==
    /\ game_state # None
    /\ game_state' # None
    /\ ~game_state.game_over
    /\ game_state'.game_over
    /\ game_state'.result \in {"Time out for White", "Time out for Black"}

\* C18: a timeout ends the game only for the side to move, and only when
\* that side's remaining time, the time elapsed since start_time taken off
\* and not clamped, is at most 0; the result names the side to move, the
\* other side's time is not touched, and there is no timeout without a time
\* limit or while the timer is not running.
C18_TimeoutOnlyForSideToMove ==
    [][TimedOutNow =>
          LET turn == game_state'.board.turn
          IN  /\ game_state'.result =
                    IF turn = WHITE THEN "Time out for White"
                    ELSE "Time out for Black"
              /\ game_state'.remaining_time[turn] =
                    game_state.remaining_time[turn]
                       - (ticks' - game_state.start_time)
              /\ game_state'.remaining_time[turn] <= 0
              /\ game_state'.remaining_time[Other(turn)] =
                    game_state.remaining_time[Other(turn)]
              /\ game_state'.time_limit # NoneInt
              /\ game_state'.is_timer_running]_vars

\* Two humans: White, to move with the timer running, has run out of time
C18_Witness ==
    /\ game_state # None
    /\ game_state.game_mode = "Human vs Human"
    /\ game_state.game_over
    /\ game_state.result = "Time out for White"
    /\ game_state.board.turn = WHITE
    /\ game_state.is_timer_running
    /\ game_state.remaining_time[WHITE] <= 0
    /\ game_state.remaining_time[BLACK] > 0
    /\ Len(game_state.move_history) = 2


\* C19: without a time limit no moves, engine moves and refresh ticks end
\* the session by timeout, and both remaining_time values stay the -1 they
\* were created with.
C19_NoLimitNoTimeout ==
    (game_state # None /\ game_state.time_limit = NoneInt)
       => /\ game_state.result \notin
                {"Time out for White", "Time out for Black"}
          /\ game_state.remaining_time[WHITE] = 0 - 1
          /\ game_state.remaining_time[BLACK] = 0 - 1

\* Against the engine without a limit: all the time of the model has
\* passed, the timer is running, and a refresh tick found the game ended on
\* the board
C19_Witness ==
    /\ game_state # None
    /\ game_state.time_limit = NoneInt
    /\ game_state.game_mode = "Human vs AI"
    /\ game_state.is_timer_running
    /\ ticks = MaxSteps * TickStep
    /\ game_state.game_over
    /\ game_state.result \in {"1-0", "1/2-1/2"}
    /\ Len(game_state.move_history) = 1


\* C20: a hint leaves the board, the side to move and move_history as they
\* were; of the session it changes hint_move, which becomes the engine's
\* answer, and hints_used, which gets the board's current move number
\* appended, and nothing else.
C20_HintOnlyRecordsItself ==
    [][(ClickHint /\ game_state.game_mode \in {"Human vs AI", "Human vs Human"})
       => /\ game_state'.board = game_state.board
          /\ game_state'.board.turn = game_state.board.turn
          /\ game_state'.move_history = game_state.move_history
          /\ game_state'.hints_used =
                game_state.hints_used \o <<game_state.board.fullmove_number>>
          /\ game_state'.hint_move \in LegalMoves(game_state.board) \cup {None}
          /\ \A f \in DOMAIN game_state \ {"hint_move", "hints_used"} :
                game_state'[f] = game_state[f]
          /\ UNCHANGED <<running, current_state, user_selections,
                         evaluation_screen, temp_board, pc, ticks, crashed>>]_vars

\* After Black's first reply a hint was taken for White's second move
C20_Witness ==
    /\ game_state # None
    /\ game_state.hints_used = <<2>>
    /\ game_state.hint_move # None
    /\ game_state.board.turn = WHITE
    /\ Len(game_state.move_history) = 2
    /\ ~game_state.game_over


\* C21: saved_games is append-only: once a record is in it, no later step
\* on the session (hints, moves, resign and Continue, Save clicks) changes
\* a field of the record or removes it.
C21_SavedGamesAppendOnly ==
    [][/\ Len(login_system'.saved_games) >= Len(login_system.saved_games)
       /\ \A i \in 1 .. Len(login_system.saved_games) :
             login_system'.saved_games[i] = login_system.saved_games[i]]_vars


\* C22: no engine request is outstanding when a step begins or ends, each
\* call being answered before the next is made, so that at most one is
\* outstanding at any time; a step applies at most one move to the session,
\* to the board as the step found it; and while the evaluator analyses, the
\* session is not played on and gets no hint.
C22_OneEngineRequestAtATime ==
    [][/\ outstanding = <<>>
       /\ outstanding' = <<>>
       /\ (/\ game_state # None
           /\ game_state' # None
           /\ game_state'.move_history # game_state.move_history)
          => \E move \in LegalMoves(game_state.board) :
                /\ game_state'.move_history =
                      Append(game_state.move_history, move)
                /\ game_state'.board = Push(game_state.board, move)
       /\ pc = "evaluate_moves" => game_state' = game_state]_vars

\* Against the engine: the engine has moved, a hint was taken, and the
\* evaluator has analysed both moves of the game
C22_Witness ==
    /\ game_state # None
    /\ game_state.game_mode = "Human vs AI"
    /\ game_state.human_color = BLACK
    /\ Len(game_state.move_history) = 2
    /\ game_state.hints_used # <<>>
    /\ evaluation_screen # None
    /\ Len(evaluation_screen.evaluated_moves) = 2
    /\ outstanding = <<>>


\* C23: an engine move is appended to move_history, and the time the engine
\* spent searching is taken off the clock of the engine's side, the side
\* that has just moved, and not off the opponent's.
C23_EngineMoveTicksEnginesClock ==
    [][(/\ GameTick({0, TickStep})
        /\ EngineTurn(check_game_over(game_state))
        /\ game_state.time_limit # NoneInt
        /\ Len(game_state'.move_history) = Len(game_state.move_history) + 1)
       => LET mover == game_state.board.turn
          IN  /\ game_state'.board.turn = Other(mover)
              /\ game_state'.remaining_time[mover] =
                    game_state.remaining_time[mover]
                       - (ticks' - game_state.start_time)
              /\ game_state'.remaining_time[Other(mover)] =
                    game_state.remaining_time[Other(mover)]]_vars


\* C24: with a time limit, the remaining time stored for a side is never
\* negative.
C24_StoredTimeNeverNegative ==
    (game_state # None /\ game_state.time_limit # NoneInt)
       => /\ game_state.remaining_time[WHITE] >= 0
          /\ game_state.remaining_time[BLACK] >= 0


\* C25: while the session is in progress with a time limit, before the
\* first move too, the clock of the side to move is running, so that the
\* time that passes is charged to the side to move.
C25_ClockOfSideToMoveRuns ==
    (/\ game_state # None
     /\ ~game_state.game_over
     /\ game_state.time_limit # NoneInt)
       => game_state.is_timer_running


\* The two remaining times together
TotalTime(gs) == gs.remaining_time[WHITE] + gs.remaining_time[BLACK]

\* C26: two consecutive ticks with the same timestamp take the elapsed
\* time off once: a second check_time after check_time, a second
\* update_timer after update_timer, and a check_time after update_timer,
\* at the same now, change no remaining time; and an update_timer after
\* check_time leaves the elapsed time taken off once between the two.
C26_TickTwiceChargesOnce ==
    game_state # None =>
       \A now \in {ticks, ticks + TickStep}, turn \in {WHITE, BLACK} :
          LET checked == check_time(game_state, now)
              updated == update_timer(game_state, turn, now)
          IN  /\ check_time(checked, now).remaining_time
                    = checked.remaining_time
              /\ update_timer(updated, turn, now).remaining_time
                    = updated.remaining_time
              /\ check_time(updated, now).remaining_time
                    = updated.remaining_time
              /\ TotalTime(game_state) - TotalTime(updated)
                    = now - game_state.start_time
              /\ TotalTime(game_state)
                       - TotalTime(update_timer(checked, turn, now))
                    = now - game_state.start_time

\* The timer runs, time has passed since start_time and no tick has
\* charged it yet: the next refresh tick charges it, and the one after
\* that can come at the same time
C26_Witness ==
    /\ game_state # None
    /\ game_state.time_limit # NoneInt
    /\ game_state.is_timer_running
    /\ ~game_state.game_over
    /\ current_state = "GAME_SCREEN"
    /\ game_state.start_time < ticks
    /\ game_state.remaining_time[game_state.board.turn]
          > ticks - game_state.start_time


\* C27: a hint request when the session is over, or when the position on
\* the board is terminal, asks no engine, sets no hint move and records
\* nothing in hints_used.
C27_NoHintWhenOver ==
    [][(/\ ClickHint
        /\ game_state.game_over \/ IsGameOver(game_state.board))
       => /\ game_state'.hint_move = game_state.hint_move
          /\ game_state'.hints_used = game_state.hints_used]_vars


\* C28: the depth of the evaluator's analyses is greater than the search
\* depth of every difficulty (Easy, Medium, Hard, Extreme) and than the
\* depth a session plays with, AI vs AI included.
C28_AnalysisDeeperThanPlay ==
    /\ \A name \in Difficulties : AnalysisDepth > DifficultyDepth(name)
    /\ game_state # None => AnalysisDepth > game_state.ai_skill


\* The place of a screen in the session flow
StepRank(screen) ==
    CASE screen = "LOGIN_SCREEN" -> 0
      [] screen = "MODE_SCREEN" -> 1
      [] screen = "COLOR_SCREEN" -> 2
      [] screen = "DIFFICULTY_SCREEN" -> 3
      [] screen = "TIME_SCREEN" -> 4
      [] screen = "GAME_SCREEN" -> 5
      [] screen = "EVALUATION_SCREEN" -> 6

\* C29: the session flow is a linear pipeline: a step forward goes to the
\* next step, mode, color, difficulty, time and then the match, in every
\* game mode; the color step alone may be skipped, so that a match starts
\* only after the mode, difficulty and time steps were passed in that order.
C29_LinearPipeline ==
    [][StepRank(current_state') > StepRank(current_state)
       => \/ StepRank(current_state') = StepRank(current_state) + 1
          \/ /\ current_state = "MODE_SCREEN"
             /\ current_state' = "DIFFICULTY_SCREEN"]_vars

\* TimeScreenUntouched and ScreenUntouched are among the screens' results
UntouchedAreResults ==
    /\ TimeScreenUntouched(user_selections.time, user_selections.no_time)
          \subseteq TimeScreenResults(user_selections.time,
                                      user_selections.no_time)
    /\ ScreenUntouched(user_selections.mode)
          \subseteq ScreenResults(user_selections.mode, Modes)


\* C30: a configuration step that is entered and left with Back or Next
\* without a choice of the user leaves its stored selection as it was: the
\* mode, the color, the difficulty, and the time with the no-time flag.
C30_UntouchedStepKeepsSelection ==
    /\ At("MODE_SCREEN") =>
          \A r \in ScreenUntouched(user_selections.mode) :
             r.value = user_selections.mode
    /\ At("COLOR_SCREEN") =>
          \A r \in ScreenUntouched(user_selections.color) :
             r.value = user_selections.color
    /\ At("DIFFICULTY_SCREEN") =>
          \A r \in ScreenUntouched(user_selections.difficulty) :
             r.value = user_selections.difficulty
    /\ At("TIME_SCREEN") =>
          \A r \in TimeScreenUntouched(user_selections.time,
                                       user_selections.no_time) :
             /\ r.time = user_selections.time
             /\ r.no_time = user_selections.no_time


\* C31: when the position on the board is terminal by the rules, the next
\* refresh tick ends the session with the result of the rules, and asks
\* the engine for no move in that position.
C31_TerminalPositionEndsSession ==
    [][(GameTick({0, TickStep}) /\ IsGameOver(game_state.board))
       => /\ game_state'.game_over
          /\ game_state'.result = BoardResult(game_state.board)
          /\ game_state'.move_history = game_state.move_history
          /\ game_state'.board = game_state.board]_vars


\* C32: while the session is over, by timeout, resignation or natural end,
\* no move is pushed to the board or appended to move_history until the
\* session is resumed, also not for a click handled later in the pass in
\* which the session became over.
C32_NoMoveWhileOver ==
    [][(game_state # None /\ game_state.game_over /\ game_state' # None)
       => /\ game_state'.board = game_state.board
          /\ game_state'.move_history = game_state.move_history]_vars

\* C33: once a natural end of the game has set the result of the rules
\* (1-0, 0-1 or 1/2-1/2), no clock check replaces it with a timeout, and
\* the clocks are not decremented any more.
C33_NaturalResultStays ==
    [][(/\ game_state # None
        /\ game_state' # None
        /\ \/ game_state.result \in {"1-0", "0-1", "1/2-1/2"}
           \/ GameTick({0, TickStep}) /\ IsGameOver(game_state.board))
       => /\ game_state'.result \notin
                {"Time out for White", "Time out for Black"}
          /\ game_state'.remaining_time = game_state.remaining_time]_vars


\* C34: on every exit of get_move_evaluation that returns a colour, the
\* failure default after the look-ahead push included, the replay board is
\* in the position it had on entry, every push being matched by a pop, so
\* that evaluate_moves pushes move i on position P_i.
C34_EvaluationLeavesBoardAsFound ==
    Evaluating =>
       LET move == evaluation_screen.move_history[NextEvaluated]
       IN  /\ Top(temp_board) =
                 Replay(SubSeq(evaluation_screen.move_history, 1,
                               NextEvaluated - 1))
           /\ \A info \in Infos(Top(temp_board)), new_info \in ScoreAnswers :
                 LET r == get_move_evaluation(temp_board, move, info, new_info)
                 IN  ~r.raised => r.board = temp_board


\* The time check_time would take off the clock of the side to move of
\* session gs at time now
Charge(gs, now) ==
    gs.remaining_time[gs.board.turn]
       - check_time(gs, now).remaining_time[gs.board.turn]

\* C35: the time that passes while a resigned session is over is not taken
\* off a clock after Continue: a clock check at the moment of the resumption
\* charges no more than one at the moment of the resignation would have, so
\* that the first tick after it charges only the time since the resumption.
C35_ResumeChargesNothing ==
    [][(/\ InReview
        /\ current_state' = "GAME_SCREEN"
        /\ game_state' # None
        /\ pre_resign # None
        /\ ~pre_resign.game_over)
       => Charge(game_state', ticks')
             <= (IF pre_resign.is_timer_running
                 THEN pre_resign.at - pre_resign.start_time ELSE 0)]_vars


\* ------------------------------------------------------------------------
\* From the login to the end of a match and to the next configuration pass
\* ------------------------------------------------------------------------

NextAuto ==
    \/ NextConfig
    \/ GameTick({0})
    \/ \E square \in Squares : ClickBoard(square)
    \/ ClickResign
    \/ EnterEvaluation
    \/ EvaluateMove(PlainAnswers)
    \/ EvaluationDone
    \/ ReviewClick("new_game")

SpecAuto == Init /\ [][NextAuto]_vars

\* C36: AI vs AI has no human side: no click on the board selects a piece or
\* applies a move, whatever colour, difficulty and time an earlier pass of
\* the configuration screens left in user_selections.
C36_NoHumanSideInAIvsAI ==
    [][(/\ game_state # None
        /\ game_state.game_mode = "AI vs AI"
        /\ \E square \in Squares : ClickBoard(square))
       => /\ game_state'.selected_square = NoneInt
          /\ game_state'.move_history = game_state.move_history
          /\ game_state'.board = game_state.board]_vars


\* C37: with a piece selected on any square, a1 (index 0) included, the next
\* click on the board is taken as a move attempt: when the selected square
\* and the clicked one make a legal move, handle_click applies the move.
C37_SelectionWorksOnEverySquare ==
    (InEvents /\ game_state.selected_square # NoneInt) =>
       \A square \in Squares :
          LET move == Move(game_state.selected_square, square, NoneStr)
              clicked == handle_click(game_state, square, ticks)
          IN  move \in LegalMoves(game_state.board)
                 => /\ clicked.move_history =
                          Append(game_state.move_history, move)
                    /\ clicked.board = Push(game_state.board, move)


\* Whether the side to move of session gs is played by clicks on the board
HumanToMove(gs) ==
    \/ gs.game_mode = "Human vs Human"
    \/ gs.game_mode = "Human vs AI" /\ gs.board.turn = gs.human_color

\* C38: every legal move of the human side, pawn promotions included, can be
\* played with two clicks: one on its origin, which selects the piece, and
\* one on its destination, which applies a legal move between the two
\* squares.
C38_EveryLegalMovePlayable ==
    (InEvents /\ ~game_state.game_over /\ HumanToMove(game_state)) =>
       \A m \in LegalMoves(game_state.board) :
          LET selected == handle_click(reset_selection(game_state),
                                       m.from_square, ticks)
              applied == handle_click(selected, m.to_square, ticks)
          IN  /\ selected.selected_square = m.from_square
              /\ \E played \in LegalMoves(game_state.board) :
                    /\ played.from_square = m.from_square
                    /\ played.to_square = m.to_square
                    /\ applied.move_history =
                          Append(game_state.move_history, played)
                    /\ applied.board = Push(game_state.board, played)


\* ------------------------------------------------------------------------
\* The review session with every control: mouse, keyboard and autoplay
\* ------------------------------------------------------------------------

\* A match of the engine against itself, without a time limit
ScrubSelections ==
    {[mode |-> "AI vs AI", color |-> NoneStr, difficulty |-> NoneStr,
      time |-> NoneInt, no_time |-> FALSE]}

InitScrub == \E sel \in ScrubSelections : MatchStart(sel)

NextScrub ==
    \/ TimePasses
    \/ CreateGameState
    \/ GameTick({0})
    \/ ClickResign
    \/ EnterEvaluation
    \/ EvaluateMove(ScoreAnswers)
    \/ EvaluationDone
    \/ \E key \in Buttons : ReviewClick(key)
    \/ ReviewKey
    \/ UpdateAndDraw

SpecScrub == InitScrub /\ [][NextScrub]_vars

\* C39: in a review session, whatever the sequence of go-to-start, previous,
\* next, play/pause, speed changes and autoplay steps,
\* 0 <= current_move_index <= len(move_history) = len(evaluated_moves), and
\* speed_index is an index of speed_options.
C39_ReviewIndicesInRange ==
    InReview =>
       /\ 0 <= evaluation_screen.current_move_index
       /\ evaluation_screen.current_move_index
             <= Len(evaluation_screen.move_history)
       /\ Len(evaluation_screen.move_history)
             = Len(evaluation_screen.evaluated_moves)
       /\ evaluation_screen.speed_index \in 0 .. NumSpeeds - 1
C39_Witness ==
    /\ InReview
    /\ Len(evaluation_screen.move_history) = MaxMoves
    /\ evaluation_screen.current_move_index = MaxMoves
    /\ ~evaluation_screen.is_playing
    /\ evaluation_screen.speed_index = NumSpeeds - 1

====
